---- MODULE Spec2Model ----
(***************************************************************************)
(* A model of clif/python/gen.py: the generator helpers that emit the      *)
(* C++ glue of a CLIF Python extension.  Emitted source lines are modelled *)
(* as records (one per yielded line) and strings as sequences of tokens or *)
(* characters, so that list/str operations of the generator (slicing,      *)
(* startswith, join, del) are computed, not assumed.  The emitted wrapper  *)
(* is then executed line by line by a small interpreter of the emitted     *)
(* statements.                                                             *)
(***************************************************************************)
EXTENDS Integers, Sequences, FiniteSets, TLC

VARIABLES
  ip,         \* _CreateInputParameter: the call's inputs (ptype, arg, args)
  ipres,      \* _CreateInputParameter: the call's outcome
  hdr_files,  \* Headlines: the caller's hdr_files list object
  tp_slots,   \* TypeObject: the caller's tp_slots dict object
  emit_args,  \* Headlines / TypeObject: the other (immutable) arguments
  outs,       \* the line sequences yielded by the successive emitter calls
  emitter,    \* which emitter the caller drives ("Headlines", "TypeObject")
  fcargs,     \* FunctionCall: the call's arguments
  code,       \* FunctionCall: the lines yielded
  phase,      \* "idle", "input", "generated", "raised", "running", "done"
  rt          \* the state of one execution of the emitted wrapper

vars == <<ip, ipres, hdr_files, tp_slots, emit_args, outs, emitter,
          fcargs, code, phase, rt>>

(***************************************************************************)
(* Bounds of the model.                                                    *)
(***************************************************************************)
MaxCallableReturns == 2
MaxAccumulator == 1
MaxHeaders == 3
MaxFlags == 2
MaxCalls == 2
MaxParams == 2
MaxExecParams == 3
MaxReturns == 2

(***************************************************************************)
(* Generic helpers on sequences (Python list / str operations).            *)
(***************************************************************************)
Range(s) == { s[i] : i \in 1..Len(s) }

\* s[:n] for 0 <= n
Take(s, n) == SubSeq(s, 1, IF n < Len(s) THEN n ELSE Len(s))

\* s[:-1]
DropLast(s) == IF Len(s) = 0 THEN s ELSE SubSeq(s, 1, Len(s) - 1)

\* s.startswith(<<tok>>) on a tokenised string
StartsWith(s, tok) == Len(s) > 0 /\ s[1] = tok

\* s.endswith(<<tok>>) on a tokenised string
EndsWith(s, tok) == Len(s) > 0 /\ s[Len(s)] = tok

\* needle in s (substring test on character sequences)
Contains(s, needle) ==
  \E i \in 1..(Len(s) - Len(needle) + 1) :
    SubSeq(s, i, i + Len(needle) - 1) = needle

RECURSIVE Flatten(_)
Flatten(ss) == IF ss = <<>> THEN <<>> ELSE Head(ss) \o Flatten(Tail(ss))

\* All sequences over S of length 0..n
RECURSIVE SeqsUpTo(_, _)
SeqsUpTo(S, n) ==
  IF n = 0 THEN { <<>> }
  ELSE LET shorter == SeqsUpTo(S, n - 1)
       IN shorter \cup { Append(s, x) : s \in { t \in shorter : Len(t) = n - 1 }, x \in S }

(***************************************************************************)
(* Type descriptors (AST.Type) as _CreateInputParameter reads them.        *)
(* cpp_type is a tokenised C++ type spelling; callable_returns is          *)
(* len(ptype.callable.returns), or -1 when the descriptor has no callable. *)
(***************************************************************************)
CppTypes ==
  { <<>>,
    <<"T">>,
    <<"T", "*">>,
    <<"::std::unique_ptr", "<T>">>,
    <<"::std::shared_ptr", "<T>">>,
    <<"::std::unique_ptr", "<T>", "*">> }

PTypes ==
  [ cpp_type : CppTypes,
    callable_returns : -1..MaxCallableReturns,
    cpp_raw_pointer : BOOLEAN,
    cpp_abstract : BOOLEAN,
    cpp_has_def_ctor : BOOLEAN,
    cpp_has_public_dtor : BOOLEAN,
    cpp_toptr_conversion : BOOLEAN,
    cpp_touniqptr_conversion : BOOLEAN ]

\* A call-site expression over a local variable: form applied to <var><idx>.
Expr(form, var, idx) == [form |-> form, var |-> var, idx |-> idx]

\* Outcomes of a generator helper: returned value or raised exception.
Returned(decl, args) == [kind |-> "ok", decl |-> decl, args |-> args]
Raised(exc, args) == [kind |-> exc, decl |-> <<>>, args |-> args]
Pending == [kind |-> "pending", decl |-> <<>>, args |-> <<>>]

(***************************************************************************)
(* _CreateInputParameter(func_name, ast_param, arg, args): the local       *)
(* declaration of C++ stack variable arg<n>; args += the call-site getter. *)
(***************************************************************************)
\* gen.py 292-301 with the append hoisted above the returns check.
CreateFunctionParameter_AppendFirst(ptype, n, args) ==
  LET appended == Append(args, Expr("std::move", "arg", n))
  IN IF ptype.callable_returns < 0
       THEN Raised("AssertionError", args)
     ELSE IF ptype.callable_returns > 1
       THEN Raised("ValueError", appended)
     ELSE Returned(<<"std::function<", ">">>, appended)

\* std::function special case
CreateFunctionParameter(ptype, n, args) ==
  IF ptype.callable_returns < 0
    THEN Raised("AssertionError", args)
  ELSE IF ptype.callable_returns > 1
    THEN Raised("ValueError", args)
  ELSE Returned(<<"std::function<", ">">>,
                Append(args, Expr("std::move", "arg", n)))

\* gen.py 302-321 with `elif cpp_has_public_dtor` read as a plain `if`.
CreateRawPointerParameter_DtorAfterAbstract(ptype, n, args) ==
  LET ctype == ptype.cpp_type
      t == DropLast(ctype)
  IN IF ptype.cpp_toptr_conversion
       THEN Returned(ctype, Append(args, Expr("", "arg", n)))
     ELSE IF EndsWith(ctype, "*") /\ ptype.cpp_abstract
                                  /\ ptype.cpp_touniqptr_conversion
       THEN Returned(<<"::std::unique_ptr<">> \o t \o <<">">>,
                     Append(args, Expr(".get()", "arg", n)))
     ELSE IF EndsWith(ctype, "*") /\ ptype.cpp_has_public_dtor
       THEN IF ptype.cpp_has_def_ctor
              THEN Returned(t, Append(args, Expr("&", "arg", n)))
              ELSE Returned(<<"::gtl::optional<">> \o t \o <<">">>,
                            Append(args, Expr("&.value()", "arg", n)))
     ELSE Raised("TypeError", args)

\* T*
CreateRawPointerParameter(ptype, n, args) ==
  LET ctype == ptype.cpp_type
      t == DropLast(ctype)
  IN IF ptype.cpp_toptr_conversion
       THEN Returned(ctype, Append(args, Expr("", "arg", n)))
     ELSE IF EndsWith(ctype, "*") /\ ptype.cpp_abstract
       THEN IF ptype.cpp_touniqptr_conversion
              THEN Returned(<<"::std::unique_ptr<">> \o t \o <<">">>,
                            Append(args, Expr(".get()", "arg", n)))
              ELSE Raised("TypeError", args)
     ELSE IF EndsWith(ctype, "*") /\ ptype.cpp_has_public_dtor
       \* Create a copy on stack and pass its address.
       THEN IF ptype.cpp_has_def_ctor
              THEN Returned(t, Append(args, Expr("&", "arg", n)))
              ELSE Returned(<<"::gtl::optional<">> \o t \o <<">">>,
                            Append(args, Expr("&.value()", "arg", n)))
     ELSE Raised("TypeError", args)

\* unique_ptr<T>, shared_ptr<T>, T, [const] T&
CreateValueParameter(ptype, n, args) ==
  LET ctype == ptype.cpp_type
      smartptr == StartsWith(ctype, "::std::unique_ptr")
                    \/ StartsWith(ctype, "::std::shared_ptr")
  IN IF (smartptr \/ ptype.cpp_abstract) /\ ~ptype.cpp_touniqptr_conversion
       THEN Raised("TypeError", args)
     ELSE IF smartptr
       THEN Returned(ctype, Append(args, Expr("std::move", "arg", n)))
     ELSE IF ptype.cpp_toptr_conversion
       THEN Returned(ctype \o <<"*">>, Append(args, Expr("*", "arg", n)))
     ELSE IF ptype.cpp_abstract
       THEN Returned(<<"std::unique_ptr<">> \o ctype \o <<">">>,
                     Append(args, Expr("*", "arg", n)))
     \* Create a copy on stack.
     ELSE IF ptype.cpp_has_def_ctor
       THEN Returned(ctype, Append(args, Expr("std::move", "arg", n)))
     ELSE Returned(<<"::gtl::optional<">> \o ctype \o <<">">>,
                   Append(args, Expr(".value()", "arg", n)))

CreateInputParameter(ptype, n, args) ==
  IF ptype.cpp_type = <<>> THEN CreateFunctionParameter(ptype, n, args)
  ELSE IF ptype.cpp_raw_pointer THEN CreateRawPointerParameter(ptype, n, args)
  ELSE CreateValueParameter(ptype, n, args)

(***************************************************************************)
(* Specification of single _CreateInputParameter calls.                    *)
(***************************************************************************)
Accumulators == SeqsUpTo({ Expr("std::move", "arg", 0) }, MaxAccumulator)

NoParamCall == [ptype |-> <<>>, arg |-> 0, args |-> <<>>]

EmitIdle ==
  /\ hdr_files = <<>>
  /\ tp_slots = <<>>
  /\ emit_args = <<>>
  /\ outs = <<>>
  /\ emitter = "none"

CallIdle ==
  /\ fcargs = <<>>
  /\ code = <<>>
  /\ phase = "idle"
  /\ rt = <<>>

InitParam ==
  /\ \E pt \in PTypes, acc \in Accumulators :
       ip = [ptype |-> pt, arg |-> Len(acc) + 1, args |-> acc]
  /\ ipres = Pending
  /\ EmitIdle
  /\ CallIdle

CreateInputParameterCall ==
  /\ ipres.kind = "pending"
  /\ ip # NoParamCall
  /\ ipres' = CreateInputParameter(ip.ptype, ip.arg, ip.args)
  /\ UNCHANGED <<ip, hdr_files, tp_slots, emit_args, outs, emitter, fcargs, code, phase, rt>>

NextParam == CreateInputParameterCall

SpecParam == InitParam /\ [][NextParam]_vars

(***************************************************************************)
(* Properties of _CreateInputParameter.                                    *)
(***************************************************************************)
IpCalled == ipres.kind # "pending"

\* The call appended exactly one call-site expression, over its own local.
AppendedOne ==
  /\ Len(ipres.args) = Len(ip.args) + 1
  /\ Take(ipres.args, Len(ip.args)) = ip.args
  /\ ipres.args[Len(ipres.args)].var = "arg"
  /\ ipres.args[Len(ipres.args)].idx = ip.arg

\* C3: _CreateInputParameter is total: every call either returns one
\* declaration and appends exactly one call-site expression to args, or raises
\* an explicit error and leaves args unchanged (ValueError/TypeError; the
\* assertion of line 294 fires only for an empty cpp_type without a callable
\* descriptor, a combination outside the classification inputs).
C3_Total ==
  IpCalled =>
    \/ /\ ipres.kind = "ok"
       /\ ipres.decl # <<>>
       /\ AppendedOne
    \/ /\ ipres.kind \in {"ValueError", "TypeError"}
       /\ ipres.decl = <<>>
       /\ ipres.args = ip.args
    \/ /\ ipres.kind = "AssertionError"
       /\ ip.ptype.cpp_type = <<>>
       /\ ip.ptype.callable_returns < 0
       /\ ipres.args = ip.args

C3_Witness ==
  /\ IpCalled
  /\ ipres.kind = "ok"
  /\ ip.args # <<>>
  /\ ip.ptype.cpp_type # <<>>
  /\ ~ip.ptype.cpp_raw_pointer

\* The raw-pointer rule applies: T* without a direct-to-pointer conversion.
RawPointerCase ==
  /\ IpCalled
  /\ ip.ptype.cpp_raw_pointer
  /\ EndsWith(ip.ptype.cpp_type, "*")
  /\ ~ip.ptype.cpp_toptr_conversion

DeclaresUniquePtr ==
  /\ ipres.kind = "ok"
  /\ ipres.decl = <<"::std::unique_ptr<">> \o DropLast(ip.ptype.cpp_type) \o <<">">>
  /\ ipres.args = Append(ip.args, Expr(".get()", "arg", ip.arg))

DeclaresStackValue ==
  /\ ipres.kind = "ok"
  /\ IF ip.ptype.cpp_has_def_ctor
       THEN /\ ipres.decl = DropLast(ip.ptype.cpp_type)
            /\ ipres.args = Append(ip.args, Expr("&", "arg", ip.arg))
       ELSE /\ ipres.decl = <<"::gtl::optional<">> \o DropLast(ip.ptype.cpp_type) \o <<">">>
            /\ ipres.args = Append(ip.args, Expr("&.value()", "arg", ip.arg))

NoValidConversion == ipres.kind = "TypeError" /\ ipres.args = ip.args

\* C4 as claimed: the raw-pointer cascade is unique_ptr if abstract with an
\* owning-pointer conversion; otherwise (an abstract type without that
\* conversion included) a stack value if the pointee has a public destructor;
\* the no-valid-conversion error only when neither applies.
C4_CascadeAsClaimed ==
  RawPointerCase =>
    IF ip.ptype.cpp_abstract /\ ip.ptype.cpp_touniqptr_conversion
      THEN DeclaresUniquePtr
    ELSE IF ip.ptype.cpp_has_public_dtor
      THEN DeclaresStackValue
    ELSE NoValidConversion

\* C4 (amended): the raw-pointer cascade is unique_ptr if abstract with an
\* owning-pointer conversion; a stack value only if the type is NOT abstract
\* and the pointee has a public destructor; the no-valid-conversion error in
\* every other case, an abstract type without an owning-pointer conversion
\* included whatever its destructor.
C4_Cascade ==
  RawPointerCase =>
    IF ip.ptype.cpp_abstract
      THEN IF ip.ptype.cpp_touniqptr_conversion
             THEN DeclaresUniquePtr
             ELSE NoValidConversion
    ELSE IF ip.ptype.cpp_has_public_dtor
      THEN DeclaresStackValue
    ELSE NoValidConversion

C4_Witness ==
  /\ RawPointerCase
  /\ ip.ptype.cpp_abstract
  /\ ~ip.ptype.cpp_touniqptr_conversion
  /\ ip.ptype.cpp_has_public_dtor
  /\ NoValidConversion

(***************************************************************************)
(* Emitted source lines.  One record per yielded line: op names the        *)
(* statement template, n and m its integer holes, s its string hole (a     *)
(* sequence of tokens or characters), args its call-site expressions.      *)
(***************************************************************************)
Line(op, n, m, s, args) == [op |-> op, n |-> n, m |-> m, s |-> s, args |-> args]
L(op) == Line(op, 0, 0, <<>>, <<>>)
Ln(op, n) == Line(op, n, 0, <<>>, <<>>)
Ls(op, s) == Line(op, 0, 0, s, <<>>)

Ops(lines) == [i \in 1..Len(lines) |-> lines[i].op]

(***************************************************************************)
(* Python values that the emitters iterate: a str is a sequence of         *)
(* characters, iterated character by character; a list of str is iterated  *)
(* item by item.                                                           *)
(***************************************************************************)
PyStr(chars) == [t |-> "str", items |-> <<>>, chars |-> chars]
PyList(items) == [t |-> "list", items |-> items, chars |-> <<>>]

Iter(x) == IF x.t = "str" THEN [i \in 1..Len(x.chars) |-> <<x.chars[i]>>]
           ELSE x.items

\* sep.join(x)
RECURSIVE JoinSeq(_, _)
JoinSeq(sep, strs) ==
  IF strs = <<>> THEN <<>>
  ELSE IF Len(strs) = 1 THEN strs[1]
  ELSE strs[1] \o sep \o JoinSeq(sep, Tail(strs))

Join(sep, x) == JoinSeq(sep, Iter(x))

(***************************************************************************)
(* OpenNs(namespace): namespace is tokenised at '::' ; empty means 'clif'. *)
(***************************************************************************)
OpenNs(namespace) ==
  Ls("namespace %s {", IF namespace = <<>> THEN <<"clif">> ELSE namespace)

(***************************************************************************)
(* Headlines(src_file, hdr_files, sys_hdr_files, open_ns): the header      *)
(* comment and the #includes.  py3output is the global PY3OUTPUT           *)
(* ("None", "True" or "False").  The result is the yielded lines and the   *)
(* hdr_files list as the call leaves it.                                   *)
(***************************************************************************)
HeadlinesBanner(py3output, src_file) ==
  << L("//////"),
     Ls("// This file was automatically generated by CLIF",
        IF py3output = "None" THEN <<>>
        ELSE <<" to run under Python ", IF py3output = "True" THEN "3" ELSE "2">>),
     L("// Version"),
     L("//////") >>
  \o (IF src_file # "" THEN << Ls("// source: %s", <<src_file>>) >> ELSE <<>>)
  \o << L("") >>

HeadlinesInclude(h, python_h) ==
  IF h = "PYOBJ" /\ ~python_h
    THEN << L(""),
            L("// Forward declare PyObject"),
            L("struct _object; typedef _object PyObject;") >>
  ELSE IF h # "" THEN << Ls("#include \"%s\"", <<h>>) >>
  ELSE <<>>

Headlines(py3output, src_file, hdrs, sys_hdr_files, open_ns) ==
  LET python_h == Take(hdrs, 1) = <<"PYTHON">>
      \* del hdr_files[0]
      rest == IF python_h THEN Tail(hdrs) ELSE hdrs
  IN [ lines |->
         HeadlinesBanner(py3output, src_file)
         \o (IF python_h THEN << L("#include <Python.h>") >> ELSE <<>>)
         \o Flatten([i \in 1..Len(sys_hdr_files) |->
                      IF sys_hdr_files[i] # ""
                        THEN << Ls("#include <%s>", <<sys_hdr_files[i]>>) >>
                        ELSE <<>>])
         \o Flatten([i \in 1..Len(rest) |-> HeadlinesInclude(rest[i], python_h)])
         \o (IF open_ns # <<>> THEN << L(""), OpenNs(open_ns) >> ELSE <<>>),
       hdr_files |-> rest ]

(***************************************************************************)
(* TypeObject(tp_slots, slotgen, pyname, wname, fqclassname, ctor,         *)
(* abstract, async_dtor, subst_cpp_ptr).  ctor is "" (None), "DEF" or the  *)
(* name of the constructor wrapper.  tp_slots is the caller's dict; the    *)
(* slots the function assigns constants to are written as such by SlotGen. *)
(***************************************************************************)
\* slotgen(tp_slots): the body of the PyTypeObject, one line per slot value.
SlotGen(slots) ==
  << Ls("tp_flags", slots.tp_flags.chars),
     Ls("tp_init", <<slots.tp_init>>),
     L("tp_free"), L("tp_dealloc"), L("tp_alloc"), L("tp_new"),
     L("tp_basicsize"), L("tp_itemsize"), L("tp_version_tag"),
     L("tp_dictoffset"), L("tp_weaklistoffset"), L("tp_doc") >>

TypeObjectDtor(async_dtor) ==
  << L(""),
     L("// %s __new__"),
     L("static PyObject* _allocator(PyTypeObject* type, Py_ssize_t nitems);"),
     L("// %s __init__"),
     L("static int _ctor(PyObject* self, PyObject* args, PyObject* kw);"),
     L(""),
     L("static void _dtor(void* self) {") >>
  \o (IF async_dtor THEN << L("Py_BEGIN_ALLOW_THREADS") >> ELSE <<>>)
  \o << L("delete reinterpret_cast<%s*>(self);") >>
  \o (IF async_dtor THEN << L("Py_END_ALLOW_THREADS") >> ELSE <<>>)
  \o << L("}") >>

TypeObjectSlots(slots, ctor) ==
  [ tp_flags |-> PyStr(Join(<<" ", "|", " ">>, slots.tp_flags)),
    tp_init |-> IF ctor # "" THEN "_ctor" ELSE "Clif_PyType_Inconstructible" ]

TypeObjectCtor(ctor, abstract, subst_cpp_ptr) ==
  IF ctor = "" THEN <<>>
  ELSE
    << L("static int _ctor(PyObject* self, PyObject* args, PyObject* kw) {") >>
    \o (IF abstract
          THEN << L("if (Py_TYPE(self) == &%s) {"),
                  L("return Clif_PyType_Inconstructible(self, args, kw);"),
                  L("}") >>
          ELSE <<>>)
    \o (IF ctor = "DEF"
          THEN << L("if ((args && PyTuple_GET_SIZE(args) != 0) || (kw && PyDict_Size(kw) != 0)) {"),
                  L("PyErr_SetString(PyExc_TypeError, \"%s takes no arguments\");"),
                  L("return -1;"),
                  L("}"),
                  Ls("%s = ::clif::MakeShared<%s>();",
                     <<IF subst_cpp_ptr # "" THEN subst_cpp_ptr ELSE "fqclassname">>) >>
               \o (IF subst_cpp_ptr # ""
                     THEN << L("%s->::clif::PyObj::Init(self);") >> ELSE <<>>)
               \o << L("return 0;") >>
          ELSE << Ls("PyObject* init = %s(self, args, kw);", <<ctor>>),
                  L("Py_XDECREF(init);"),
                  L("return init? 0: -1;") >>)
    \o << L("}") >>

TypeObject(slots, ctor, abstract, async_dtor, subst_cpp_ptr) ==
  LET assigned == TypeObjectSlots(slots, ctor)
  IN [ lines |->
         TypeObjectDtor(async_dtor)
         \o << L(""), L("PyTypeObject %s = {"),
               L("PyVarObject_HEAD_INIT(&PyType_Type, 0)") >>
         \o SlotGen(assigned)
         \o << L("};"), L("") >>
         \o TypeObjectCtor(ctor, abstract, subst_cpp_ptr)
         \o << L(""),
               L("static PyObject* _allocator(PyTypeObject* type, Py_ssize_t nitems) {"),
               L("assert(nitems == 0);"),
               L("PyObject* self = reinterpret_cast<PyObject*>(new %s);"),
               L("return PyObject_Init(self, &%s);"),
               L("}") >>,
       tp_slots |-> assigned ]

(***************************************************************************)
(* Specification of repeated emitter calls on the same input objects.      *)
(***************************************************************************)
HeaderNames == { "PYTHON", "PYOBJ", "a.h", "" }
FlagNames == { <<"A">>, <<"B", "C">> }

ParamIdle == ip = NoParamCall /\ ipres = Pending

InitEmit ==
  /\ ParamIdle
  /\ CallIdle
  /\ outs = <<>>
  /\ \/ /\ emitter = "Headlines"
        /\ hdr_files \in SeqsUpTo(HeaderNames, MaxHeaders)
        /\ tp_slots = <<>>
        /\ emit_args \in [ py3output : {"None", "True", "False"},
                           src_file : {"", "a.h"},
                           sys_hdr_files : { <<>>, <<"vector">> },
                           open_ns : { <<>>, <<"a", "b">> } ]
     \/ /\ emitter = "TypeObject"
        /\ hdr_files = <<>>
        /\ \E flags \in SeqsUpTo(FlagNames, MaxFlags) \ { <<>> } :
             tp_slots = [ tp_flags |-> PyList(flags), tp_init |-> "" ]
        /\ emit_args \in [ ctor : {"", "DEF", "wrapCtor"},
                           abstract : BOOLEAN,
                           async_dtor : BOOLEAN,
                           subst_cpp_ptr : {"", "Sub"} ]

HeadlinesCall ==
  /\ emitter = "Headlines"
  /\ Len(outs) < MaxCalls
  /\ LET r == Headlines(emit_args.py3output, emit_args.src_file, hdr_files,
                        emit_args.sys_hdr_files, emit_args.open_ns)
     IN /\ outs' = Append(outs, r.lines)
        /\ hdr_files' = r.hdr_files
  /\ UNCHANGED <<ip, ipres, tp_slots, emit_args, emitter, fcargs, code, phase, rt>>

TypeObjectCall ==
  /\ emitter = "TypeObject"
  /\ Len(outs) < MaxCalls
  /\ LET r == TypeObject(tp_slots, emit_args.ctor, emit_args.abstract,
                         emit_args.async_dtor, emit_args.subst_cpp_ptr)
     IN /\ outs' = Append(outs, r.lines)
        /\ tp_slots' = r.tp_slots
  /\ UNCHANGED <<ip, ipres, hdr_files, emit_args, emitter, fcargs, code, phase, rt>>

NextEmit == HeadlinesCall \/ TypeObjectCall

SpecEmit == InitEmit /\ [][NextEmit]_vars

\* C2: generation is idempotent: a second call of an emitter on the very same
\* input objects yields the same lines as the first call.
C2_Idempotent == Len(outs) >= 2 => outs[2] = outs[1]

\* The instances of C2 the claim names: Headlines with the same hdr_files list,
\* TypeObject with the same tp_slots dict.
C2_HeadlinesIdempotent ==
  (emitter = "Headlines" /\ Len(outs) >= 2) => outs[2] = outs[1]
C2_TypeObjectIdempotent ==
  (emitter = "TypeObject" /\ Len(outs) >= 2) => outs[2] = outs[1]

(***************************************************************************)
(* FunctionCall(pyname, wrapper, doc, catch, call, postcall_init,          *)
(* typepostconversion, func_ast, lineno, prepend_self): the PyCFunction    *)
(* wrapper of one callable.  The arguments are gathered in one record fc:  *)
(*   pyname        tokenised Python name; a last token "@" marks a context *)
(*                 manager hook                                            *)
(*   catch, async, classmethod, postproc, postcall_init   as in the source *)
(*                 (postproc / postcall_init: the string is non-empty)     *)
(*   call          the C++ command(s): the last one is the call            *)
(*   prepend_self  a type descriptor, or NoSelf                            *)
(*   params        func_ast.params: [type, default_value]                  *)
(*   nret          len(func_ast.returns)                                   *)
(*   void          astutils.FuncReturnType(func_ast) == 'void'             *)
(*   ret0_def_ctor func_ast.returns[0].type.cpp_has_def_ctor               *)
(* The op of each emitted line is the line's text with its holes; n, m, s  *)
(* and args fill the holes.  A block's closing brace is "}" with n its     *)
(* indentation (0 for the function's own).                                 *)
(***************************************************************************)
NoSelf ==
  [ cpp_type |-> <<"None">>, callable_returns |-> -1, cpp_raw_pointer |-> FALSE,
    cpp_abstract |-> FALSE, cpp_has_def_ctor |-> FALSE,
    cpp_has_public_dtor |-> FALSE, cpp_toptr_conversion |-> FALSE,
    cpp_touniqptr_conversion |-> FALSE ]

Enter == <<"__enter__", "@">>
Exit == <<"__exit__", "@">>

\* ctxmgr = pyname.endswith('@') and pyname
CtxMgr(pyname) == IF EndsWith(pyname, "@") THEN pyname ELSE <<>>

\* default_value == 'default' or 'inf' in default_value
DefaultUnknown(default_value) ==
  \/ default_value = <<"d", "e", "f", "a", "u", "l", "t">>
  \/ Contains(default_value, <<"i", "n", "f">>)

\* minargs = sum(1 for p in func_ast.params if not p.default_value)
MinArgs(params) == Cardinality({ i \in 1..Len(params) : params[i].default_value = <<>> })

\* The outcome of the _CreateInputParameter call for prepend_self.
SelfParameter(fc) ==
  IF fc.prepend_self = NoSelf THEN Returned(<<>>, <<>>)
  ELSE CreateInputParameter(fc.prepend_self, 0, <<>>)

\* The outcome of the _CreateInputParameter call for the n-th parameter
\* (n = i+1), on the params accumulated so far; n = 0 is prepend_self.
RECURSIVE InputParameter(_, _)
InputParameter(fc, n) ==
  IF n = 0 THEN SelfParameter(fc)
  ELSE CreateInputParameter(fc.params[n].type, n, InputParameter(fc, n - 1).args)

\* The generator raises instead of yielding the whole wrapper.
FunctionCallRaises(fc) ==
  \/ CtxMgr(fc.pyname) # <<>> /\ CtxMgr(fc.pyname) \notin {Enter, Exit}
  \/ \E n \in 0..Len(fc.params) : InputParameter(fc, n).kind # "ok"

\* params after the extra return values: '&ret%d' for n or void_return_type
RECURSIVE OutputParams(_, _)
OutputParams(fc, k) ==
  IF k = 0 THEN InputParameter(fc, Len(fc.params)).args
  ELSE IF (k - 1) > 0 \/ fc.void
         THEN Append(OutputParams(fc, k - 1), Expr("&", "ret", k - 1))
         ELSE OutputParams(fc, k - 1)

CallParams(fc) == OutputParams(fc, fc.nret)

FcHeader(fc) ==
  << L(""),
     Ls("// doc", IF fc.classmethod THEN <<"@classmethod">> ELSE <<>>),
     Line("static PyObject* %s(PyObject* %s%s) {",
          IF Len(fc.params) > 0 THEN 1 ELSE 0, 0,
          <<IF fc.classmethod THEN "cls" ELSE "self">>, <<>>) >>

FcSelf(fc) ==
  IF fc.prepend_self = NoSelf THEN <<>>
  ELSE << Line("%s arg%d;", 0, 0, SelfParameter(fc).decl, <<>>),
          L("if (!Clif_PyObjAs(self, &arg0)) return nullptr;") >>

\* The format of PyArg_ParseTupleAndKeywords.
ParseFormat(nargs, minargs) ==
  IF minargs = nargs THEN [i \in 1..nargs |-> "O"]
  ELSE [i \in 1..minargs |-> "O"] \o <<"|">> \o [i \in 1..(nargs - minargs) |-> "O"]

\* The parse step with the backward scan stopping one argument early.
FcParse_ScanStopsEarly(fc) ==
  LET nargs == Len(fc.params)
      minargs == MinArgs(fc.params)
  IN IF nargs = 0 THEN <<>>
     ELSE << Line("PyObject* a[%d]%s;", nargs, 0,
                  IF minargs = nargs THEN <<>> ELSE <<"{}">>, <<>>),
             L("char* names[] = {") >>
          \o [i \in 1..nargs |-> Ln("C(\"%s\"),", i - 1)]
          \o << L("nullptr"), L("};"),
                Line("if (!PyArg_ParseTupleAndKeywords(args, kw, \"%s:%s\", names, %s)) return nullptr;",
                     nargs, 0, ParseFormat(nargs, minargs), <<>>) >>
          \o (IF minargs < nargs
                THEN << L("int nargs;"),
                        Line("for (nargs = %d; nargs > %d; --nargs) {", nargs, minargs + 1, <<>>, <<>>),
                        L("if (a[nargs-1] != nullptr) break;"),
                        Ln("}", 1) >>
                ELSE <<>>)

FcParse(fc) ==
  LET nargs == Len(fc.params)
      minargs == MinArgs(fc.params)
  IN IF nargs = 0 THEN <<>>
     ELSE << Line("PyObject* a[%d]%s;", nargs, 0,
                  IF minargs = nargs THEN <<>> ELSE <<"{}">>, <<>>),
             L("char* names[] = {") >>
          \o [i \in 1..nargs |-> Ln("C(\"%s\"),", i - 1)]
          \o << L("nullptr"), L("};"),
                Line("if (!PyArg_ParseTupleAndKeywords(args, kw, \"%s:%s\", names, %s)) return nullptr;",
                     nargs, 0, ParseFormat(nargs, minargs), <<>>) >>
          \o (IF minargs < nargs
                THEN << L("int nargs;"),
                        Line("for (nargs = %d; nargs > %d; --nargs) {", nargs, minargs, <<>>, <<>>),
                        L("if (a[nargs-1] != nullptr) break;"),
                        Ln("}", 1) >>
                ELSE <<>>)

Cvt(i) == Ln("if (!Clif_PyObjAs(a[%d], &arg%d)) return ArgError", i)
ElseCvt(i) == Ln("else if (!Clif_PyObjAs(a[%d], &arg%d)) return ArgError", i)

\* The guarded conversion of an optional parameter, gen.py 417-434, with the
\* 'inf' work-around left out of the test for a default the matcher missed.
FcOptional_DefaultOnly(p, i, nargs) ==
  << Ln("if (nargs > %d) {", i) >>
  \o (IF p.default_value = <<"d", "e", "f", "a", "u", "l", "t">>
        THEN (IF i + 1 < nargs
                THEN << Ln("if (!a[%d]) return DefaultArgMissedError", i) >>
                ELSE <<>>)
             \o << Cvt(i) >>
        ELSE << Line("if (!a[%d]) arg%d = (%s)%s;", i, 0, p.default_value, <<>>),
                ElseCvt(i) >>)
  \o << Ln("}", 1) >>

\* The guarded conversion of an optional parameter with `nargs > i` written
\* `nargs >= i`.
FcOptional_GuardOffByOne(p, i, nargs) ==
  << Ln("if (nargs > %d) {", i - 1) >>
  \o (IF DefaultUnknown(p.default_value)
        THEN (IF i + 1 < nargs
                THEN << Ln("if (!a[%d]) return DefaultArgMissedError", i) >>
                ELSE <<>>)
             \o << Cvt(i) >>
        ELSE << Line("if (!a[%d]) arg%d = (%s)%s;", i, 0, p.default_value, <<>>),
                ElseCvt(i) >>)
  \o << Ln("}", 1) >>

\* The guarded conversion of optional parameter p = func_ast.params[i].
FcOptional(p, i, nargs) ==
  << Ln("if (nargs > %d) {", i) >>
  \o (IF DefaultUnknown(p.default_value)
        THEN (IF i + 1 < nargs
                THEN << Ln("if (!a[%d]) return DefaultArgMissedError", i) >>
                ELSE <<>>)
             \o << Cvt(i) >>
        ELSE << Line("if (!a[%d]) arg%d = (%s)%s;", i, 0, p.default_value, <<>>),
                ElseCvt(i) >>)
  \o << Ln("}", 1) >>

\* Convert input parameters from Python.
FcConvert(fc) ==
  LET nargs == Len(fc.params)
      minargs == MinArgs(fc.params)
  IN Flatten([n \in 1..nargs |->
       << Line("%s arg%d;", n, 0, InputParameter(fc, n).decl, <<>>) >>
       \o (IF n - 1 < minargs THEN << Cvt(n - 1) >>
           ELSE FcOptional(fc.params[n], n - 1, nargs))])

\* Create input parameters for extra return values.
FcOutputs(fc) ==
  Flatten([k \in 1..fc.nret |->
    IF (k - 1) > 0 \/ fc.void THEN << Ln("%s ret%d{};", k - 1) >> ELSE <<>>])

GenExceptionTry ==
  << L("PyObject* err_type = nullptr;"),
     L("string err_msg{\"C++ exception\"};"),
     L("try {") >>

GenExceptionCatch ==
  << L("} catch(const std::exception& e) {"),
     L("err_type = PyExc_RuntimeError;"),
     L("err_msg += string(\": \") + e.what();"),
     L("} catch (...) {"),
     L("err_type = PyExc_RuntimeError;"),
     Ln("}", 1) >>

GenExceptionRaise ==
  << L("if (err_type) {"),
     L("PyErr_SetString(err_type, err_msg.c_str());"),
     L("return nullptr;"),
     Ln("}", 1) >>

\* The lock-yield before the call.
FcAsyncBegin(fc) ==
  IF fc.async
    THEN (IF Len(fc.params) > 0
            THEN << L("Py_INCREF(args);"), L("Py_XINCREF(kw);") >> ELSE <<>>)
         \o << L("PyThreadState* _save;"), L("Py_UNBLOCK_THREADS") >>
    ELSE <<>>

\* gen.py 490-494 with the references dropped before the lock is re-acquired.
FcAsyncEnd_DecrefFirst(fc) ==
  IF fc.async
    THEN (IF Len(fc.params) > 0
            THEN << L("Py_DECREF(args);"), L("Py_XDECREF(kw);") >> ELSE <<>>)
         \o << L("Py_BLOCK_THREADS") >>
    ELSE <<>>

\* The re-acquire after the call.
FcAsyncEnd(fc) ==
  IF fc.async
    THEN << L("Py_BLOCK_THREADS") >>
         \o (IF Len(fc.params) > 0
               THEN << L("Py_DECREF(args);"), L("Py_XDECREF(kw);") >> ELSE <<>>)
    ELSE <<>>

\* The declaration of ret0 ahead of the call; optional_ret0 is its second case.
OptionalRet0(fc) ==
  /\ (MinArgs(fc.params) < Len(fc.params) \/ fc.catch)
  /\ ~fc.void
  /\ ~fc.ret0_def_ctor

FcRet0(fc) ==
  IF (MinArgs(fc.params) < Len(fc.params) \/ fc.catch) /\ ~fc.void
    THEN IF fc.ret0_def_ctor
           THEN << L("%s ret0;") >>
           ELSE << L("::gtl::optional<%s> ret0;") >>
    ELSE <<>>

\* The native call: one switch branch per arity, or the single call.
FcCall(fc) ==
  LET nargs == Len(fc.params)
      minargs == MinArgs(fc.params)
      params == CallParams(fc)
  IN IF minargs < nargs
       THEN << L("switch (nargs) {") >>
            \o Flatten([k \in 1..(nargs - minargs + 1) |->
                 LET n == minargs + k - 1
                 IN << Ln("case %d:", n),
                       Line("%s; break;", n, 0,
                            IF fc.void THEN <<>> ELSE <<"ret0 = ">>,
                            Take(params, n)) >>])
            \o << Ln("}", 1) >>
       ELSE << Line("%s;", 0, 0,
                    IF fc.void THEN <<>>
                    ELSE IF fc.catch THEN <<"ret0 = ">>
                    ELSE <<"%s ret0 = ">>,
                    params) >>

\* Call actual C++ method.
FcCallSection(fc) ==
  << L("// Call actual C++ method.") >>
  \o [i \in 1..(Len(fc.call) - 1) |-> Ls("%s", <<fc.call[i]>>)]
  \o FcAsyncBegin(fc)
  \o FcRet0(fc)
  \o (IF fc.catch THEN GenExceptionTry ELSE <<>>)
  \o FcCall(fc)
  \o (IF fc.catch THEN GenExceptionCatch ELSE <<>>)
  \o (IF fc.postcall_init THEN << Ls("%s", <<"postcall_init">>) >> ELSE <<>>)
  \o FcAsyncEnd(fc)
  \o (IF fc.catch THEN GenExceptionRaise ELSE <<>>)

\* The conversion of return value i with the release of the tuple on a failed
\* conversion left out.
FcTupleItem_NoRelease(i) ==
  << Ln("if ((p=Clif_PyObjFrom(std::move(ret%d), %s)) == nullptr) {", i),
     L("return nullptr;"),
     Ln("}", 1),
     Ln("PyTuple_SET_ITEM(result_tuple, %d, p);", i) >>

\* The conversion of return value i into the result tuple.
FcTupleItem(i) ==
  << Ln("if ((p=Clif_PyObjFrom(std::move(ret%d), %s)) == nullptr) {", i),
     L("Py_DECREF(result_tuple);"),
     L("return nullptr;"),
     Ln("}", 1),
     Ln("PyTuple_SET_ITEM(result_tuple, %d, p);", i) >>

FcPostproc(fc) ==
  IF fc.postproc
    THEN << L("PyObject* pyproc = ImportFQName(\"%s\");"),
            L("if (pyproc == nullptr) {"),
            L("Py_DECREF(result_tuple);"),
            L("return nullptr;"),
            Ln("}", 1),
            L("p = PyObject_CallObject(pyproc, result_tuple);"),
            L("Py_DECREF(pyproc);"),
            L("Py_CLEAR(result_tuple);") >>
         \o (IF CtxMgr(fc.pyname) # <<>>
               THEN << L("if (p == nullptr) return nullptr;"),
                       L("Py_DECREF(p);") >>
               ELSE << L("result_tuple = p;") >>)
    ELSE <<>>

\* Convert return values to Python (the tuple path).
FcReturnTuple(fc) ==
  << L("// Convert return values to Python."),
     Ln("PyObject* p, * result_tuple = PyTuple_New(%d);", fc.nret),
     L("if (result_tuple == nullptr) return nullptr;") >>
  \o Flatten([k \in 1..fc.nret |-> FcTupleItem(k - 1)])
  \o FcPostproc(fc)
  \o (IF CtxMgr(fc.pyname) = Enter
        THEN << L("Py_XDECREF(result_tuple);"),
                L("Py_INCREF(self);"),
                L("return self;") >>
      ELSE IF CtxMgr(fc.pyname) = Exit
        THEN << L("Py_XDECREF(result_tuple);"),
                L("Py_RETURN_NONE;") >>
      ELSE << L("return result_tuple;") >>)

\* gen.py 537-541 with the marker test written `elif ctxmgr:`.
FcReturnNothing_AnyMarker(fc) ==
  IF CtxMgr(fc.pyname) # <<>>
    THEN << L("Py_INCREF(self);"), L("return self;") >>
    ELSE << L("Py_RETURN_NONE;") >>

\* The result of a callable without return values.
FcReturnNothing(fc) ==
  IF CtxMgr(fc.pyname) = Enter
    THEN << L("Py_INCREF(self);"), L("return self;") >>
    ELSE << L("Py_RETURN_NONE;") >>

\* The return section with the marker left out of the tuple-path test.
FcReturn_NoMarkerTest(fc) ==
  IF fc.nret > 1 \/ (fc.postproc /\ fc.nret > 0)
    THEN FcReturnTuple(fc)
  ELSE IF fc.nret > 0
    THEN << Ls("return Clif_PyObjFrom(std::move(ret0%s), %s);",
               IF OptionalRet0(fc) THEN <<".value()">> ELSE <<>>) >>
  ELSE FcReturnNothing(fc)

\* If ctxmgr, force return self on enter, None on exit.
FcReturn(fc) ==
  IF fc.nret > 1 \/ ((fc.postproc \/ CtxMgr(fc.pyname) # <<>>) /\ fc.nret > 0)
    THEN FcReturnTuple(fc)
  ELSE IF fc.nret > 0
    THEN << Ls("return Clif_PyObjFrom(std::move(ret0%s), %s);",
               IF OptionalRet0(fc) THEN <<".value()">> ELSE <<>>) >>
  ELSE FcReturnNothing(fc)

FunctionCall(fc) ==
  FcHeader(fc)
  \o FcSelf(fc)
  \o FcParse(fc)
  \o FcConvert(fc)
  \o FcOutputs(fc)
  \o FcCallSection(fc)
  \o FcReturn(fc)
  \o << Ln("}", 0) >>

(***************************************************************************)
(* The callables and options FunctionCall is given.                        *)
(***************************************************************************)
\* T: a value type with a default constructor.
ValueT ==
  [ cpp_type |-> <<"T">>, callable_returns |-> -1, cpp_raw_pointer |-> FALSE,
    cpp_abstract |-> FALSE, cpp_has_def_ctor |-> TRUE,
    cpp_has_public_dtor |-> TRUE, cpp_toptr_conversion |-> FALSE,
    cpp_touniqptr_conversion |-> FALSE ]

\* T* with a direct-to-pointer conversion (a wrapped class passed as self).
PointerT ==
  [ cpp_type |-> <<"T", "*">>, callable_returns |-> -1, cpp_raw_pointer |-> TRUE,
    cpp_abstract |-> FALSE, cpp_has_def_ctor |-> TRUE,
    cpp_has_public_dtor |-> TRUE, cpp_toptr_conversion |-> TRUE,
    cpp_touniqptr_conversion |-> FALSE ]

\* An abstract T without conversions: _CreateInputParameter raises.
AbstractT ==
  [ cpp_type |-> <<"T">>, callable_returns |-> -1, cpp_raw_pointer |-> FALSE,
    cpp_abstract |-> TRUE, cpp_has_def_ctor |-> FALSE,
    cpp_has_public_dtor |-> TRUE, cpp_toptr_conversion |-> FALSE,
    cpp_touniqptr_conversion |-> FALSE ]

DefaultValues ==
  { <<"0">>, <<"d", "e", "f", "a", "u", "l", "t">>, <<"-", "i", "n", "f">> }

\* Parameter lists of a C++ callable: defaulted parameters are trailing.
ParamLists(types, max) ==
  { ps \in SeqsUpTo([type : types, default_value : DefaultValues \cup { <<>> }],
                    max) :
      \A i \in 1..Len(ps) : \A j \in 1..Len(ps) :
        (i < j /\ ps[i].default_value # <<>>) => ps[j].default_value # <<>> }

\* (nret, void, ret0_def_ctor): a callable without returns is void.
ReturnShapes ==
  { r \in [nret : 0..MaxReturns, void : BOOLEAN, ret0_def_ctor : BOOLEAN] :
      /\ r.nret = 0 => r.void
      /\ r.void => r.ret0_def_ctor }

FcRecord(pyname, catch, call, postcall_init, prepend_self, params, r, classmethod, async, postproc) ==
  [ pyname |-> pyname, catch |-> catch, call |-> call,
    postcall_init |-> postcall_init, prepend_self |-> prepend_self,
    params |-> params, nret |-> r.nret, void |-> r.void,
    ret0_def_ctor |-> r.ret0_def_ctor, classmethod |-> classmethod,
    async |-> async, postproc |-> postproc ]

(***************************************************************************)
(* Specification of FunctionCall as a generator: every combination of its  *)
(* options, one call each.                                                 *)
(***************************************************************************)
InitCall ==
  /\ ParamIdle
  /\ EmitIdle
  /\ code = <<>>
  /\ phase = "input"
  /\ rt = <<>>
  /\ \E pyname \in { <<"f">>, Enter, Exit, <<"g", "@">> },
        catch \in BOOLEAN,
        call \in { <<"f">>, <<"pre;", "f">> },
        postcall_init \in BOOLEAN,
        prepend_self \in { NoSelf, PointerT, AbstractT },
        params \in ParamLists({ValueT}, MaxParams),
        r \in ReturnShapes,
        classmethod \in BOOLEAN,
        async \in BOOLEAN,
        postproc \in BOOLEAN :
       fcargs = FcRecord(pyname, catch, call, postcall_init, prepend_self, params,
                     r, classmethod, async, postproc)

\* One FunctionCall call, drained by the caller.
Generate ==
  /\ phase = "input"
  /\ IF FunctionCallRaises(fcargs)
       THEN phase' = "raised" /\ code' = <<>>
       ELSE phase' = "generated" /\ code' = FunctionCall(fcargs)
  /\ UNCHANGED <<ip, ipres, hdr_files, tp_slots, emit_args, outs, emitter, fcargs, rt>>

NextCall == Generate

SpecCall == InitCall /\ [][NextCall]_vars

(***************************************************************************)
(* Properties of the emitted wrapper, read off its lines.                  *)
(***************************************************************************)
Generated == phase \in {"generated", "running", "done"}

fcNargs == Len(fcargs.params)
fcMinargs == MinArgs(fcargs.params)
fcCtxmgr == CtxMgr(fcargs.pyname)

LinesOf(op) == { j \in 1..Len(code) : code[j].op = op }

\* arg1..argn, the converted arguments of the callable's own parameters
OwnArgs(args, n) ==
  /\ Len(args) = n
  /\ \A j \in 1..n : args[j].var = "arg" /\ args[j].idx = j

\* C1: a callable with k >= 1 optional trailing parameters gets exactly k+1
\* arity branches, one `case n` for each n in fcMinargs..fcNargs, and the native
\* call of branch n is supplied exactly arg1..argn.
C1_ArityBranches ==
  (Generated /\ fcMinargs < fcNargs) =>
    /\ Cardinality(LinesOf("case %d:")) = fcNargs - fcMinargs + 1
    /\ \A n \in fcMinargs..fcNargs :
         \E j \in LinesOf("case %d:") :
           /\ code[j].n = n
           /\ code[j + 1].op = "%s; break;"
           /\ OwnArgs(code[j + 1].args, n)

ReturnLocalOps ==
  { "%s ret%d{};", "%s ret0;", "::gtl::optional<%s> ret0;",
    "PyObject* p, * result_tuple = PyTuple_New(%d);" }

NoReturnLocal ==
  /\ \A j \in 1..Len(code) : code[j].op \notin ReturnLocalOps
  /\ \A j \in LinesOf("%s;") \cup LinesOf("%s; break;") : code[j].s = <<>>

\* The statement before the function's closing brace.
FinalStatement == code[Len(code) - 1].op

\* C5 as claimed: a callable with zero return values declares no return-value
\* local and ends in Py_RETURN_NONE, whatever the options.
C5_NoneAsClaimed ==
  (Generated /\ fcargs.nret = 0) =>
    /\ NoReturnLocal
    /\ FinalStatement = "Py_RETURN_NONE;"

\* C5 (amended): a callable with zero return values declares no return-value
\* local, and ends in Py_RETURN_NONE unless its name is __enter__@, where it
\* ends in Py_INCREF(self); return self;.
C5_NoneOrSelf ==
  (Generated /\ fcargs.nret = 0) =>
    /\ NoReturnLocal
    /\ IF fcCtxmgr = Enter
         THEN /\ FinalStatement = "return self;"
              /\ code[Len(code) - 2].op = "Py_INCREF(self);"
         ELSE FinalStatement = "Py_RETURN_NONE;"

C5_Witness ==
  /\ Generated
  /\ fcargs.nret = 0
  /\ fcCtxmgr = Enter
  /\ fcargs.catch /\ fcargs.async /\ fcargs.postproc
  /\ fcMinargs < fcNargs
  /\ FinalStatement = "return self;"

\* The statements that touch a Python object or the interpreter's state.
DynamicOps ==
  { "if (!Clif_PyObjAs(self, &arg0)) return nullptr;",
    "if (!PyArg_ParseTupleAndKeywords(args, kw, \"%s:%s\", names, %s)) return nullptr;",
    "if (!Clif_PyObjAs(a[%d], &arg%d)) return ArgError",
    "else if (!Clif_PyObjAs(a[%d], &arg%d)) return ArgError",
    "if (!a[%d]) return DefaultArgMissedError",
    "Py_INCREF(args);", "Py_XINCREF(kw);", "Py_DECREF(args);", "Py_XDECREF(kw);",
    "PyErr_SetString(err_type, err_msg.c_str());",
    "PyObject* p, * result_tuple = PyTuple_New(%d);",
    "if ((p=Clif_PyObjFrom(std::move(ret%d), %s)) == nullptr) {",
    "Py_DECREF(result_tuple);", "PyTuple_SET_ITEM(result_tuple, %d, p);",
    "PyObject* pyproc = ImportFQName(\"%s\");",
    "p = PyObject_CallObject(pyproc, result_tuple);",
    "Py_DECREF(pyproc);", "Py_CLEAR(result_tuple);", "Py_DECREF(p);",
    "Py_XDECREF(result_tuple);", "Py_INCREF(self);", "Py_RETURN_NONE;",
    "return Clif_PyObjFrom(std::move(ret0%s), %s);" }

CallLines == LinesOf("%s;") \cup LinesOf("%s; break;")

Before(A, B) == \A i \in A : \A j \in B : i < j

\* C9: in an async wrapper the one Py_UNBLOCK_THREADS precedes every native
\* call and the one Py_BLOCK_THREADS follows them; no statement between the two
\* touches a Python object; args/kw are incremented before the yield and
\* decremented after the re-acquire (both present when the wrapper has
\* arguments); an intercepted exception is raised after the re-acquire.
C9_AsyncBracket ==
  (Generated /\ fcargs.async) =>
    /\ Cardinality(LinesOf("Py_UNBLOCK_THREADS")) = 1
    /\ Cardinality(LinesOf("Py_BLOCK_THREADS")) = 1
    /\ CallLines # {}
    /\ Before(LinesOf("Py_UNBLOCK_THREADS"), CallLines)
    /\ Before(CallLines, LinesOf("Py_BLOCK_THREADS"))
    /\ \A u \in LinesOf("Py_UNBLOCK_THREADS"), b \in LinesOf("Py_BLOCK_THREADS") :
         \A j \in (u + 1)..(b - 1) : code[j].op \notin DynamicOps
    /\ Before(LinesOf("Py_INCREF(args);") \cup LinesOf("Py_XINCREF(kw);"),
              LinesOf("Py_UNBLOCK_THREADS"))
    /\ Before(LinesOf("Py_BLOCK_THREADS"),
              LinesOf("Py_DECREF(args);") \cup LinesOf("Py_XDECREF(kw);"))
    /\ Before(LinesOf("Py_BLOCK_THREADS"),
              LinesOf("PyErr_SetString(err_type, err_msg.c_str());"))
    /\ (fcNargs > 0) =>
         \A op \in { "Py_INCREF(args);", "Py_XINCREF(kw);",
                     "Py_DECREF(args);", "Py_XDECREF(kw);" } :
           Cardinality(LinesOf(op)) = 1
    /\ fcargs.catch => LinesOf("PyErr_SetString(err_type, err_msg.c_str());") # {}

C9_Witness ==
  /\ Generated
  /\ fcargs.async /\ fcargs.catch
  /\ fcNargs > fcMinargs /\ fcMinargs > 0
  /\ fcargs.nret > 1
  /\ LinesOf("Py_DECREF(args);") # {}

(***************************************************************************)
(* Execution of the emitted wrapper.  The interpreter reads the emitted    *)
(* lines only; rt is the state of the C++ function being run:              *)
(*   pc            the line about to run                                   *)
(*   a             a[i] != nullptr after parsing, per argument slot        *)
(*   nargs         the C++ local nargs (-1: no value yet)                  *)
(*   arg           per local arg<n>: "unset", "conv" or "default"          *)
(*   nullConv      Clif_PyObjAs was applied to a null slot                 *)
(*   gil           the thread holds the interpreter lock                   *)
(*   touched       a Python object was touched without the lock            *)
(*   argsRef, kwRef, selfRef   net reference count changes                 *)
(*   errType       err_type != nullptr                                     *)
(*   pyErr         PyErr_SetString was called for an intercepted exception *)
(*   calls         the argument lists handed to the native call            *)
(*   made, released, items     the result tuple: created, times released,  *)
(*                 and the <<slot, return value>> pairs stored             *)
(*   result_tuple, p, pyproc   the C++ pointers of those names             *)
(*   hookReleased  times the hook's result was released                    *)
(*   outcome, errParam, returned   how the call ended                      *)
(***************************************************************************)
RtInit ==
  [ pc |-> 1, a |-> <<>>, nargs |-> -1,
    arg |-> [n \in 0..Len(fcargs.params) |-> "unset"],
    nullConv |-> FALSE, gil |-> TRUE, touched |-> FALSE,
    argsRef |-> 0, kwRef |-> 0, selfRef |-> 0,
    errType |-> FALSE, pyErr |-> FALSE, calls |-> <<>>,
    made |-> FALSE, released |-> 0, items |-> <<>>,
    result_tuple |-> "uninit", p |-> "uninit", pSrc |-> -1, pyproc |-> "uninit",
    hookReleased |-> 0,
    outcome |-> "running", errParam |-> -1, returned |-> "" ]

Running == phase = "running"
Cur == code[rt.pc]
At(ops) == Running /\ Cur.op \in ops

MinOf(S) == CHOOSE x \in S : \A y \in S : x <= y
MaxOf(S) == CHOOSE x \in S : \A y \in S : x >= y

\* The first line after j with the given op.
FirstAfter(j, op) == MinOf({ k \in (j + 1)..Len(code) : code[k].op = op })

\* The brace closing the block that line j opens (blocks do not nest).
CloseOf(j) == MinOf({ k \in (j + 1)..Len(code) : code[k].op = "}" /\ code[k].n = 1 })

BlockOpeners ==
  { "for (nargs = %d; nargs > %d; --nargs) {", "if (nargs > %d) {",
    "switch (nargs) {", "try {", "} catch(const std::exception& e) {",
    "} catch (...) {", "if (err_type) {",
    "if ((p=Clif_PyObjFrom(std::move(ret%d), %s)) == nullptr) {",
    "if (pyproc == nullptr) {" }

\* The line opening the block that brace j closes.
OpenerOf(j) == MaxOf({ k \in 1..(j - 1) : code[k].op \in BlockOpeners })

\* A statement that touches a Python object ran: without the lock it is a fault.
Touch(r) == [r EXCEPT !.touched = r.touched \/ ~r.gil]

Continue(r) ==
  /\ rt' = [r EXCEPT !.pc = r.pc + 1]
  /\ UNCHANGED <<ip, ipres, hdr_files, tp_slots, emit_args, outs, emitter,
                 fcargs, code, phase>>

Jump(r, j) ==
  /\ rt' = [r EXCEPT !.pc = j]
  /\ UNCHANGED <<ip, ipres, hdr_files, tp_slots, emit_args, outs, emitter,
                 fcargs, code, phase>>

Finish(r, outcome, returned) ==
  /\ rt' = [r EXCEPT !.outcome = outcome, !.returned = returned]
  /\ phase' = "done"
  /\ UNCHANGED <<ip, ipres, hdr_files, tp_slots, emit_args, outs, emitter,
                 fcargs, code>>

\* The interpreter calls the wrapper.
Invoke ==
  /\ phase = "generated"
  /\ phase' = "running"
  /\ rt' = RtInit
  /\ UNCHANGED <<ip, ipres, hdr_files, tp_slots, emit_args, outs, emitter,
                 fcargs, code>>

\* Comments, declarations, labels and statements of no modelled effect.
PlainOps ==
  { "", "// doc", "static PyObject* %s(PyObject* %s%s) {", "%s arg%d;",
    "PyObject* a[%d]%s;", "char* names[] = {", "C(\"%s\"),", "nullptr", "};",
    "int nargs;", "%s ret%d{};", "// Call actual C++ method.", "%s",
    "PyThreadState* _save;", "%s ret0;", "::gtl::optional<%s> ret0;",
    "string err_msg{\"C++ exception\"};", "try {",
    "err_msg += string(\": \") + e.what();", "case %d:",
    "// Convert return values to Python." }

StepPlain ==
  /\ At(PlainOps)
  /\ Continue(rt)

\* if (!Clif_PyObjAs(self, &arg0)) return nullptr;
StepSelfConvert ==
  /\ At({"if (!Clif_PyObjAs(self, &arg0)) return nullptr;"})
  /\ \E ok \in BOOLEAN :
       IF ok THEN Continue([Touch(rt) EXCEPT !.arg[0] = "conv"])
       ELSE Finish(Touch(rt), "return nullptr;", "null")

\* The number of required slots of a PyArg_ParseTupleAndKeywords format.
Required(format) ==
  IF "|" \in Range(format)
    THEN MinOf({ i \in 1..Len(format) : format[i] = "|" }) - 1
    ELSE Len(format)

\* if (!PyArg_ParseTupleAndKeywords(args, kw, format, names, &a[0], ...))
\* return nullptr;  On success every required slot is set, and any subset of
\* the optional ones (by position or by keyword).
StepParse ==
  /\ At({"if (!PyArg_ParseTupleAndKeywords(args, kw, \"%s:%s\", names, %s)) return nullptr;"})
  /\ \/ Finish(Touch(rt), "return nullptr;", "null")
     \/ \E a \in [1..Cur.n -> BOOLEAN] :
          /\ \A i \in 1..Required(Cur.s) : a[i]
          /\ Continue([Touch(rt) EXCEPT !.a = a])

\* for (nargs = N; nargs > M; --nargs) { if (a[nargs-1] != nullptr) break; }
StepScan ==
  /\ At({"for (nargs = %d; nargs > %d; --nargs) {",
         "if (a[nargs-1] != nullptr) break;", "}"})
  /\ IF Cur.op = "for (nargs = %d; nargs > %d; --nargs) {"
       THEN IF Cur.n > Cur.m
              THEN Continue([rt EXCEPT !.nargs = Cur.n])
              ELSE Jump([rt EXCEPT !.nargs = Cur.n], CloseOf(rt.pc) + 1)
     ELSE IF Cur.op = "if (a[nargs-1] != nullptr) break;"
       THEN IF rt.a[rt.nargs]
              THEN Jump(rt, CloseOf(rt.pc) + 1)
              ELSE Continue(rt)
     ELSE /\ Cur.n = 1
          /\ code[OpenerOf(rt.pc)].op = "for (nargs = %d; nargs > %d; --nargs) {"
          /\ IF rt.nargs - 1 > code[OpenerOf(rt.pc)].m
               THEN Jump([rt EXCEPT !.nargs = rt.nargs - 1], OpenerOf(rt.pc) + 1)
               ELSE Continue([rt EXCEPT !.nargs = rt.nargs - 1])

\* The closing brace of a block other than the loop: fall through.
StepClose ==
  /\ At({"}"})
  /\ Cur.n = 1
  /\ code[OpenerOf(rt.pc)].op # "for (nargs = %d; nargs > %d; --nargs) {"
  /\ Continue(rt)

\* if (nargs > i) {
StepGuard ==
  /\ At({"if (nargs > %d) {"})
  /\ IF rt.nargs > Cur.n THEN Continue(rt) ELSE Jump(rt, CloseOf(rt.pc) + 1)

\* if (!a[i]) return DefaultArgMissedError(pyname, names[i]);
StepMissed ==
  /\ At({"if (!a[%d]) return DefaultArgMissedError"})
  /\ IF ~rt.a[Cur.n + 1]
       THEN Finish([Touch(rt) EXCEPT !.errParam = Cur.n],
                   "DefaultArgMissedError", "null")
       ELSE Continue(rt)

\* if (!a[i]) arg<i+1> = (type)default_value;
StepDefault ==
  /\ At({"if (!a[%d]) arg%d = (%s)%s;"})
  /\ IF ~rt.a[Cur.n + 1]
       THEN Continue([rt EXCEPT !.arg[Cur.n + 1] = "default"])
       ELSE Continue(rt)

\* [else] if (!Clif_PyObjAs(a[i], &arg<i+1>)) return ArgError(...);
\* The else form runs only when the if before it found a[i] set.
StepConvert ==
  /\ At({"if (!Clif_PyObjAs(a[%d], &arg%d)) return ArgError",
         "else if (!Clif_PyObjAs(a[%d], &arg%d)) return ArgError"})
  /\ IF Cur.op = "else if (!Clif_PyObjAs(a[%d], &arg%d)) return ArgError"
          /\ ~rt.a[Cur.n + 1]
       THEN Continue(rt)
       ELSE LET r == [Touch(rt) EXCEPT !.nullConv = rt.nullConv \/ ~rt.a[Cur.n + 1]]
            IN \E ok \in BOOLEAN :
                 IF ok THEN Continue([r EXCEPT !.arg[Cur.n + 1] = "conv"])
                 ELSE Finish([r EXCEPT !.errParam = Cur.n], "ArgError", "null")

\* Py_INCREF(args); Py_XINCREF(kw); Py_DECREF(args); Py_XDECREF(kw);
\* Py_INCREF(self);
StepRef ==
  /\ At({"Py_INCREF(args);", "Py_XINCREF(kw);", "Py_DECREF(args);",
         "Py_XDECREF(kw);", "Py_INCREF(self);"})
  /\ Continue(
       CASE Cur.op = "Py_INCREF(args);" -> [Touch(rt) EXCEPT !.argsRef = rt.argsRef + 1]
         [] Cur.op = "Py_XINCREF(kw);" -> [Touch(rt) EXCEPT !.kwRef = rt.kwRef + 1]
         [] Cur.op = "Py_DECREF(args);" -> [Touch(rt) EXCEPT !.argsRef = rt.argsRef - 1]
         [] Cur.op = "Py_XDECREF(kw);" -> [Touch(rt) EXCEPT !.kwRef = rt.kwRef - 1]
         [] OTHER -> [Touch(rt) EXCEPT !.selfRef = rt.selfRef + 1])

\* Py_UNBLOCK_THREADS / Py_BLOCK_THREADS
StepThreads ==
  /\ At({"Py_UNBLOCK_THREADS", "Py_BLOCK_THREADS"})
  /\ Continue([rt EXCEPT !.gil = (Cur.op = "Py_BLOCK_THREADS")])

\* PyObject* err_type = nullptr;  err_type = PyExc_RuntimeError;
StepErrType ==
  /\ At({"PyObject* err_type = nullptr;", "err_type = PyExc_RuntimeError;"})
  /\ Continue([rt EXCEPT !.errType = (Cur.op = "err_type = PyExc_RuntimeError;")])

\* Control reaches a catch clause from the block before it: skip the handlers.
StepCatch ==
  /\ At({"} catch(const std::exception& e) {", "} catch (...) {"})
  /\ Jump(rt, CloseOf(IF Cur.op = "} catch (...) {" THEN rt.pc
                      ELSE FirstAfter(rt.pc, "} catch (...) {")) + 1)

\* switch (nargs) {
StepSwitch ==
  /\ At({"switch (nargs) {"})
  /\ LET cases == { k \in (rt.pc + 1)..(CloseOf(rt.pc) - 1) :
                      code[k].op = "case %d:" /\ code[k].n = rt.nargs }
     IN IF cases # {} THEN Jump(rt, MinOf(cases))
        ELSE Jump(rt, CloseOf(rt.pc) + 1)

InTry(j) == \E k \in 1..(j - 1) : code[k].op = "try {"

\* The native call (with `break;` inside the switch).  It may throw: a
\* handler of the enclosing try takes the exception, or it leaves the wrapper.
StepNativeCall ==
  /\ At({"%s;", "%s; break;"})
  /\ LET r == [rt EXCEPT !.calls = Append(rt.calls, Cur.args)]
     IN \E thrown \in {"none", "std::exception", "other"} :
          IF thrown = "none"
            THEN IF Cur.op = "%s; break;"
                   THEN Jump(r, CloseOf(rt.pc) + 1)
                   ELSE Continue(r)
          ELSE IF InTry(rt.pc)
            THEN Jump(r, FirstAfter(rt.pc,
                           IF thrown = "other" THEN "} catch (...) {"
                           ELSE "} catch(const std::exception& e) {") + 1)
          ELSE Finish(r, "C++ exception", "exception")

\* if (err_type) {  if (pyproc == nullptr) {
StepIf ==
  /\ At({"if (err_type) {", "if (pyproc == nullptr) {"})
  /\ IF (Cur.op = "if (err_type) {" /\ rt.errType)
          \/ (Cur.op = "if (pyproc == nullptr) {" /\ rt.pyproc = "null")
       THEN Continue(rt)
       ELSE Jump(rt, CloseOf(rt.pc) + 1)

\* PyErr_SetString(err_type, err_msg.c_str());
StepSetString ==
  /\ At({"PyErr_SetString(err_type, err_msg.c_str());"})
  /\ Continue([Touch(rt) EXCEPT !.pyErr = TRUE])

\* return nullptr;  if (result_tuple == nullptr) return nullptr;
\* if (p == nullptr) return nullptr;
StepReturnNull ==
  /\ At({"return nullptr;", "if (result_tuple == nullptr) return nullptr;",
         "if (p == nullptr) return nullptr;"})
  /\ IF \/ Cur.op = "return nullptr;"
        \/ Cur.op = "if (result_tuple == nullptr) return nullptr;"
             /\ rt.result_tuple = "null"
        \/ Cur.op = "if (p == nullptr) return nullptr;" /\ rt.p = "null"
       THEN Finish(rt, "return nullptr;", "null")
       ELSE Continue(rt)

\* PyObject* p, * result_tuple = PyTuple_New(nret);
StepTupleNew ==
  /\ At({"PyObject* p, * result_tuple = PyTuple_New(%d);"})
  /\ \E ok \in BOOLEAN :
       Continue([Touch(rt) EXCEPT !.made = ok,
                                  !.result_tuple = IF ok THEN "tuple" ELSE "null"])

\* if ((p=Clif_PyObjFrom(std::move(ret<i>), ...)) == nullptr) {
StepFrom ==
  /\ At({"if ((p=Clif_PyObjFrom(std::move(ret%d), %s)) == nullptr) {"})
  /\ \E ok \in BOOLEAN :
       IF ok THEN Jump([Touch(rt) EXCEPT !.p = "item", !.pSrc = Cur.n],
                       CloseOf(rt.pc) + 1)
       ELSE Continue([Touch(rt) EXCEPT !.p = "null"])

\* PyTuple_SET_ITEM(result_tuple, i, p);
StepSetItem ==
  /\ At({"PyTuple_SET_ITEM(result_tuple, %d, p);"})
  /\ Continue([Touch(rt) EXCEPT !.items = Append(rt.items, <<Cur.n, rt.pSrc>>)])

\* One reference of the object a pointer holds is dropped.
Release(r, ptr) ==
  IF ptr = "tuple" THEN [r EXCEPT !.released = r.released + 1]
  ELSE IF ptr = "hook" THEN [r EXCEPT !.hookReleased = r.hookReleased + 1]
  ELSE r

\* Py_DECREF(result_tuple);  Py_XDECREF(result_tuple);
\* Py_CLEAR(result_tuple);  Py_DECREF(p);  Py_DECREF(pyproc);
StepRelease ==
  /\ At({"Py_DECREF(result_tuple);", "Py_XDECREF(result_tuple);",
         "Py_CLEAR(result_tuple);", "Py_DECREF(p);", "Py_DECREF(pyproc);"})
  /\ Continue(
       CASE Cur.op = "Py_CLEAR(result_tuple);" ->
              [Release(Touch(rt), rt.result_tuple) EXCEPT !.result_tuple = "null"]
         [] Cur.op = "Py_DECREF(p);" -> Release(Touch(rt), rt.p)
         [] Cur.op = "Py_DECREF(pyproc);" -> Touch(rt)
         [] OTHER -> Release(Touch(rt), rt.result_tuple))

\* PyObject* pyproc = ImportFQName("...");
\* p = PyObject_CallObject(pyproc, result_tuple);  result_tuple = p;
StepPostproc ==
  /\ At({"PyObject* pyproc = ImportFQName(\"%s\");",
         "p = PyObject_CallObject(pyproc, result_tuple);", "result_tuple = p;"})
  /\ IF Cur.op = "result_tuple = p;"
       THEN Continue([rt EXCEPT !.result_tuple = rt.p])
       ELSE \E ok \in BOOLEAN :
              IF Cur.op = "PyObject* pyproc = ImportFQName(\"%s\");"
                THEN Continue([Touch(rt) EXCEPT !.pyproc = IF ok THEN "obj" ELSE "null"])
                ELSE Continue([Touch(rt) EXCEPT !.p = IF ok THEN "hook" ELSE "null"])

\* return self;  Py_RETURN_NONE;  return result_tuple;
\* return Clif_PyObjFrom(std::move(ret0), ...);
StepReturn ==
  /\ At({"return self;", "Py_RETURN_NONE;", "return result_tuple;",
         "return Clif_PyObjFrom(std::move(ret0%s), %s);"})
  /\ IF Cur.op = "return Clif_PyObjFrom(std::move(ret0%s), %s);"
       THEN \E ok \in BOOLEAN :
              Finish(Touch(rt), Cur.op, IF ok THEN "value" ELSE "null")
       ELSE Finish(IF Cur.op = "Py_RETURN_NONE;" THEN Touch(rt) ELSE rt, Cur.op,
                   CASE Cur.op = "return self;" -> "self"
                     [] Cur.op = "Py_RETURN_NONE;" -> "None"
                     [] OTHER -> rt.result_tuple)

Step ==
  \/ StepPlain \/ StepSelfConvert \/ StepParse \/ StepScan \/ StepClose
  \/ StepGuard \/ StepMissed \/ StepDefault \/ StepConvert \/ StepRef
  \/ StepThreads \/ StepErrType \/ StepCatch \/ StepSwitch \/ StepNativeCall
  \/ StepIf \/ StepSetString \/ StepReturnNull \/ StepTupleNew \/ StepFrom
  \/ StepSetItem \/ StepRelease \/ StepPostproc \/ StepReturn

(***************************************************************************)
(* Specification of the emitted wrapper's executions: callables that vary  *)
(* in their parameters, and callables that vary in their return values.    *)
(***************************************************************************)
InitExec ==
  /\ ParamIdle
  /\ EmitIdle
  /\ code = <<>>
  /\ phase = "input"
  /\ rt = <<>>
  /\ \/ \E prepend_self \in { NoSelf, PointerT },
           params \in ParamLists({ValueT}, MaxExecParams),
           catch \in BOOLEAN :
          fcargs = FcRecord(<<"f">>, catch, <<"f">>, FALSE, prepend_self, params,
                            [nret |-> 0, void |-> TRUE, ret0_def_ctor |-> TRUE],
                            FALSE, catch, FALSE)
     \/ \E pyname \in { <<"f">>, Enter, Exit },
           r \in ReturnShapes,
           catch \in BOOLEAN, async \in BOOLEAN, postproc \in BOOLEAN :
          fcargs = FcRecord(pyname, catch, <<"f">>, FALSE, NoSelf, <<>>, r,
                            FALSE, async, postproc)

NextExec == Generate \/ Invoke \/ Step

SpecExec == InitExec /\ [][NextExec]_vars

(***************************************************************************)
(* Properties of the emitted wrapper's executions.                         *)
(***************************************************************************)
Done == phase = "done"
Parsed == phase \in {"running", "done"} /\ rt.a # <<>>
Called == phase \in {"running", "done"} /\ rt.calls # <<>>

\* Parameter j (1-based) has a literal default / a default the generator
\* does not know.
Optional(j) == fcargs.params[j].default_value # <<>>
LiteralDefault(j) == Optional(j) /\ ~DefaultUnknown(fcargs.params[j].default_value)
UnknownDefault(j) == Optional(j) /\ DefaultUnknown(fcargs.params[j].default_value)

\* The caller supplied the required arguments and nothing else.
OnlyRequired == Parsed /\ \A j \in 1..fcNargs : rt.a[j] <=> ~Optional(j)

\* The format of the parse step requires m arguments and accepts the rest.
ParseSpecShape ==
  \A k \in LinesOf("if (!PyArg_ParseTupleAndKeywords(args, kw, \"%s:%s\", names, %s)) return nullptr;") :
    LET format == code[k].s
    IN IF fcMinargs < fcNargs
         THEN /\ Len(format) = fcNargs + 1
              /\ \A i \in 1..Len(format) :
                   format[i] = IF i = fcMinargs + 1 THEN "|" ELSE "O"
         ELSE format = [i \in 1..fcNargs |-> "O"]

\* C6 as claimed: the parse spec requires m arguments and accepts the rest,
\* and when the caller supplies only the m required arguments, the native
\* call is made with every omitted literal-default parameter's local assigned
\* its default.
C6_DefaultAsClaimed ==
  (Generated /\ fcNargs > 0) =>
    /\ ParseSpecShape
    /\ (Called /\ OnlyRequired) =>
         \A j \in 1..fcNargs : LiteralDefault(j) => rt.arg[j] = "default"

\* C6 (amended): the parse spec requires m arguments and accepts the rest;
\* when the caller supplies only the m required arguments, nargs is m, the
\* arity-m branch makes the call with m arguments and the locals of the
\* omitted parameters are left unassigned (the native default applies); a
\* literal default is assigned to a parameter's local exactly when its
\* argument is absent and a later argument was supplied (its index is below
\* nargs).
C6_DefaultOnlyInGap ==
  (Generated /\ fcNargs > 0) =>
    /\ ParseSpecShape
    /\ (Called /\ OnlyRequired /\ fcMinargs < fcNargs) =>
         /\ rt.nargs = fcMinargs
         /\ Len(rt.calls[1]) = fcMinargs
         /\ \A j \in 1..fcNargs : Optional(j) => rt.arg[j] = "unset"
    /\ Called =>
         \A j \in 1..fcNargs :
           LiteralDefault(j) =>
             (rt.arg[j] = "default" <=> (~rt.a[j] /\ j <= rt.nargs))

C6_Witness ==
  /\ Called /\ OnlyRequired
  /\ fcMinargs = 2 /\ fcNargs = 3
  /\ LiteralDefault(3)
  /\ rt.arg[3] = "unset"
  /\ Len(rt.calls[1]) = 2

\* Argument j is absent, its default is unknown, and a later one was supplied.
Gap(j) ==
  /\ UnknownDefault(j)
  /\ ~rt.a[j]
  /\ \E k \in (j + 1)..fcNargs : rt.a[k]

Gaps == { j \in 1..fcNargs : Gap(j) }

\* C7: the wrapper fails with DefaultArgMissedError naming parameter i, before
\* any native call, exactly when i is the first parameter with an unknown
\* default whose argument is absent while a later one was supplied, and the
\* conversions before it succeeded (otherwise the earlier ArgError is the
\* result); without such a parameter it never fails with DefaultArgMissedError.
C7_DefaultArgMissed ==
  /\ (Done /\ rt.outcome = "DefaultArgMissedError") =>
       /\ Parsed
       /\ Gaps # {}
       /\ rt.errParam + 1 = MinOf(Gaps)
       /\ rt.calls = <<>>
       /\ \A j \in 1..rt.errParam : rt.a[j] => rt.arg[j] = "conv"
  /\ (Done /\ Parsed /\ Gaps # {}) =>
       /\ rt.calls = <<>>
       /\ \/ rt.outcome = "DefaultArgMissedError" /\ rt.errParam + 1 = MinOf(Gaps)
          \/ rt.outcome = "ArgError" /\ rt.errParam + 1 < MinOf(Gaps)

C7_Witness ==
  /\ Done
  /\ rt.outcome = "DefaultArgMissedError"
  /\ fcNargs = 3
  /\ rt.errParam = 1
  /\ Contains(fcargs.params[2].default_value, <<"i", "n", "f">>)
  /\ rt.a = <<TRUE, FALSE, TRUE>>

\* The result tuple is the value returned.
TupleReturned == rt.outcome = "return result_tuple;" /\ rt.returned = "tuple"

\* C8: with nret >= 2 the return values are stored in slots 0..nret-1 of an
\* nret-tuple in index order; every return after the tuple was created either
\* returns the complete tuple, never released, or has released it exactly
\* once; a failed conversion or hook import releases it and returns null.
C8_TupleAllOrNothing ==
  (phase \in {"running", "done"} /\ fcargs.nret >= 2) =>
    /\ \A k \in 1..Len(rt.items) : rt.items[k] = <<k - 1, k - 1>>
    /\ Len(rt.items) <= fcargs.nret
    /\ rt.released <= 1
    /\ (rt.released = 1 \/ Len(rt.items) > 0) => rt.made
    /\ (Done /\ rt.made) =>
         IF TupleReturned
           THEN rt.released = 0 /\ Len(rt.items) = fcargs.nret
           ELSE rt.released = 1
    /\ (Done /\ rt.made /\ (rt.p = "null" \/ rt.pyproc = "null")) =>
         rt.returned = "null"
    /\ (Done /\ rt.made /\ Len(rt.items) < fcargs.nret) =>
         rt.outcome = "return nullptr;" /\ rt.returned = "null"

C8_Witness ==
  /\ Done
  /\ fcargs.nret >= 2
  /\ rt.made
  /\ Len(rt.items) = 1
  /\ rt.p = "null"
  /\ rt.released = 1
  /\ rt.outcome = "return nullptr;"

\* Every running wrapper has a next statement the interpreter knows.
ExecProgress == Running => rt.pc < Len(code) /\ ENABLED Step

(***************************************************************************)
(* VirtualFunctionCall(fname, f, pyname, abstract, postconvinit): the      *)
(* override that redirects a C++ virtual call to the Python object.        *)
(*   f = [name |-> [native, cpp_name], ret, nparams, nreturns,             *)
(*        cpp_const_method, cpp_noexcept]                                  *)
(* ret is what astutils.FuncReturnType gives: <<"void">> or a type.  The   *)
(* parameter declaration string of astutils.FuncParamStr and the template  *)
(* arguments of callback::Func are text the override's control flow does   *)
(* not depend on; the lines keep the return type, the qualifiers, the      *)
(* names and the argument expressions.                                     *)
(***************************************************************************)
MaxVirtParams == 2

\* mod = ['']; const and noexcept appended when the declaration has them.
VfMod(f) ==
  << <<"">> >>
  \o (IF f.cpp_const_method THEN << <<"const">> >> ELSE <<>>)
  \o (IF f.cpp_noexcept THEN << <<"noexcept">> >> ELSE <<>>)

\* params: std::move(a<i>) for i in range(len(params)+len(returns)-(ret != 'void'))
VfParams(f) ==
  [ i \in 1..(f.nparams + f.nreturns - (IF f.ret # <<"void">> THEN 1 ELSE 0)) |->
      Expr("std::move", "a", i - 1) ]

\* ret_st
VfRetSt(f) == IF f.ret # <<"void">> THEN "return " ELSE ""

\* The else branch with the test of abstract inverted.
VfElse_AbstractInverted(f, pyname, abstract) ==
  IF ~abstract
    THEN << Ls("Py_FatalError(\"@virtual method %s.%s has no Python implementation.\");",
               pyname \o f.name.native),
            L("abort();") >>
    ELSE << Line("%s%s%s;", 0, 0, <<VfRetSt(f)>> \o f.name.cpp_name, VfParams(f)) >>

\* The else branch: fatal error in an abstract class, the native default
\* otherwise.
VfElse(f, pyname, abstract) ==
  IF abstract
    THEN << Ls("Py_FatalError(\"@virtual method %s.%s has no Python implementation.\");",
               pyname \o f.name.native),
            L("abort();") >>
    ELSE << Line("%s%s%s;", 0, 0, <<VfRetSt(f)>> \o f.name.cpp_name, VfParams(f)) >>

VirtualFunctionCall(fname, f, pyname, abstract, postconvinit) ==
  << L(""),
     Ls("%s %s%s%s override {", f.ret \o fname \o JoinSeq(<<" ">>, VfMod(f))),
     Ls("auto f = ::clif::SafeGetAttrString(pythis.get(), C(\"%s\"));", f.name.native),
     L("if (f.get()) {"),
     Line("%s::clif::callback::Func<%s>(f.get())%s;", 0, 0, <<VfRetSt(f)>>, VfParams(f)),
     L("} else {") >>
  \o VfElse(f, pyname, abstract)
  \o << Ln("}", 2), Ln("}", 1) >>

(***************************************************************************)
(* Execution of the emitted override.                                      *)
(*   resolved    "unknown" before the attribute lookup, then "yes" / "no"  *)
(*   callbacks   the argument lists handed to the Python callback          *)
(*   natives     the <<name, arguments>> of the native calls made          *)
(*   fatal       the class and method named by the fatal diagnostic        *)
(*   outcome     "running", "returned" or "terminated"                     *)
(***************************************************************************)
VRtInit ==
  [ pc |-> 1, resolved |-> "unknown", callbacks |-> <<>>, natives |-> <<>>,
    fatal |-> <<>>, outcome |-> "running" ]

\* The declarations VirtualFunctionCall is applied to.
VfNames ==
  { [native |-> <<"m">>, cpp_name |-> <<"M">>],
    [native |-> <<"n">>, cpp_name |-> <<"n">>] }

VfDecls ==
  { [name |-> nm, ret |-> ret, nparams |-> np, nreturns |-> nr,
     cpp_const_method |-> c, cpp_noexcept |-> x] :
      nm \in VfNames, ret \in { <<"void">>, <<"T">> },
      np \in 0..MaxVirtParams, nr \in 0..MaxReturns,
      c \in BOOLEAN, x \in BOOLEAN }

InitVirt ==
  /\ ParamIdle
  /\ EmitIdle
  /\ code = <<>>
  /\ phase = "input"
  /\ rt = <<>>
  /\ \E f \in VfDecls, abstract \in BOOLEAN :
       \* a non-void return type is the type of the first return value
       /\ f.ret # <<"void">> => f.nreturns >= 1
       /\ fcargs = [fname |-> f.name.cpp_name, f |-> f, pyname |-> <<"C">>,
                    abstract |-> abstract, postconvinit |-> <<>>]

GenerateVirtual ==
  /\ phase = "input"
  /\ phase' = "generated"
  /\ code' = VirtualFunctionCall(fcargs.fname, fcargs.f, fcargs.pyname,
                                 fcargs.abstract, fcargs.postconvinit)
  /\ UNCHANGED <<ip, ipres, hdr_files, tp_slots, emit_args, outs, emitter, fcargs, rt>>

\* C++ calls the override.
InvokeVirtual ==
  /\ phase = "generated"
  /\ phase' = "running"
  /\ rt' = VRtInit
  /\ UNCHANGED <<ip, ipres, hdr_files, tp_slots, emit_args, outs, emitter,
                 fcargs, code>>

VFinish(r, outcome) ==
  /\ rt' = [r EXCEPT !.outcome = outcome]
  /\ phase' = "done"
  /\ UNCHANGED <<ip, ipres, hdr_files, tp_slots, emit_args, outs, emitter,
                 fcargs, code>>

\* The blank line and the signature.
VStepPlain ==
  /\ At({"", "%s %s%s%s override {"})
  /\ Continue(rt)

\* auto f = ::clif::SafeGetAttrString(pythis.get(), C("name"));
VStepLookup ==
  /\ At({"auto f = ::clif::SafeGetAttrString(pythis.get(), C(\"%s\"));"})
  /\ \E found \in {"yes", "no"} : Continue([rt EXCEPT !.resolved = found])

\* if (f.get()) {
VStepIf ==
  /\ At({"if (f.get()) {"})
  /\ IF rt.resolved = "yes" THEN Continue(rt)
     ELSE Jump(rt, FirstAfter(rt.pc, "} else {") + 1)

\* [return ]::clif::callback::Func<...>(f.get())(params);
VStepCallback ==
  /\ At({"%s::clif::callback::Func<%s>(f.get())%s;"})
  /\ LET r == [rt EXCEPT !.callbacks = Append(rt.callbacks, Cur.args)]
     IN IF Cur.s[1] = "return " THEN VFinish(r, "returned") ELSE Continue(r)

\* } else {  reached from the end of the if block: the else block is skipped.
VStepElse ==
  /\ At({"} else {"})
  /\ Jump(rt, MinOf({ k \in (rt.pc + 1)..Len(code) :
                        code[k].op = "}" /\ code[k].n = 2 }) + 1)

\* Py_FatalError("..."): prints the diagnostic and aborts the process, so the
\* abort() after it is never reached.
VStepFatal ==
  /\ At({"Py_FatalError(\"@virtual method %s.%s has no Python implementation.\");"})
  /\ VFinish([rt EXCEPT !.fatal = Cur.s], "terminated")

\* [return ]name(params);
VStepNative ==
  /\ At({"%s%s%s;"})
  /\ LET r == [rt EXCEPT !.natives = Append(rt.natives, <<Tail(Cur.s), Cur.args>>)]
     IN IF Cur.s[1] = "return " THEN VFinish(r, "returned") ELSE Continue(r)

\* The end of the else block, and the end of the function.
VStepClose ==
  /\ At({"}"})
  /\ IF Cur.n = 2 THEN Continue(rt) ELSE VFinish(rt, "returned")

StepVirtual ==
  \/ VStepPlain \/ VStepLookup \/ VStepIf \/ VStepCallback \/ VStepElse
  \/ VStepFatal \/ VStepNative \/ VStepClose

NextVirt == GenerateVirtual \/ InvokeVirtual \/ StepVirtual

SpecVirt == InitVirt /\ [][NextVirt]_vars

(***************************************************************************)
(* Properties of the emitted override.                                     *)
(***************************************************************************)
\* The arguments a0..a(k-1), each moved, k = parameters + output parameters.
MovedArgs ==
  [ i \in 1..(fcargs.f.nparams + fcargs.f.nreturns
              - (IF fcargs.f.ret = <<"void">> THEN 0 ELSE 1)) |->
      [form |-> "std::move", var |-> "a", idx |-> i - 1] ]

\* The qualifiers after the signature's return type, name and parameters.
SignatureQualifiers ==
  LET sig == code[CHOOSE k \in 1..Len(code) : code[k].op = "%s %s%s%s override {"].s
      rest == SubSeq(sig, Len(fcargs.f.ret) + Len(fcargs.fname) + 1, Len(sig))
  IN SelectSeq(rest, LAMBDA t : t \notin {"", " "})

DeclaredQualifiers ==
  (IF fcargs.f.cpp_const_method THEN <<"const">> ELSE <<>>)
  \o (IF fcargs.f.cpp_noexcept THEN <<"noexcept">> ELSE <<>>)

CallbackOnly ==
  /\ rt.callbacks = << MovedArgs >>
  /\ rt.natives = <<>>
  /\ rt.fatal = <<>>
  /\ rt.outcome = "returned"

FatalOnly ==
  /\ rt.outcome = "terminated"
  /\ rt.fatal = fcargs.pyname \o fcargs.f.name.native
  /\ rt.callbacks = <<>>
  /\ rt.natives = <<>>

NativeOnly ==
  /\ rt.natives = << <<fcargs.f.name.cpp_name, MovedArgs>> >>
  /\ rt.callbacks = <<>>
  /\ rt.fatal = <<>>
  /\ rt.outcome = "returned"

\* C10: every invocation of an emitted override ends in exactly one of: the
\* Python callback alone (attribute resolved), termination with the
\* diagnostic naming pyname and the method and nothing else (unresolved,
\* abstract), the native default alone with the same moved arguments
\* (unresolved, not abstract); and the signature carries exactly the
\* declaration's const/noexcept qualifiers.
C10_VirtualOutcomes ==
  /\ Generated => SignatureQualifiers = DeclaredQualifiers
  /\ Running =>
       /\ Len(rt.callbacks) + Len(rt.natives) <= 1
       /\ rt.fatal = <<>>
  /\ Done =>
       /\ rt.resolved \in {"yes", "no"}
       /\ rt.resolved = "yes" => CallbackOnly
       /\ (rt.resolved = "no" /\ fcargs.abstract) => FatalOnly
       /\ (rt.resolved = "no" /\ ~fcargs.abstract) => NativeOnly

C10_Witness ==
  /\ Done
  /\ rt.resolved = "no"
  /\ fcargs.abstract
  /\ rt.outcome = "terminated"
  /\ rt.fatal = <<"C", "m">>
  /\ fcargs.f.cpp_const_method /\ fcargs.f.cpp_noexcept
  /\ SignatureQualifiers = <<"const", "noexcept">>

\* Every running override has a next statement the interpreter knows.
VirtProgress == Running => ENABLED StepVirtual

(***************************************************************************)
(* Properties of context-manager wrappers and of the backward scan.        *)
(***************************************************************************)
\* The wrapper returned a value: no null result, no escaping exception.
Succeeded == Done /\ rt.returned \notin {"null", "exception"}

\* C11: a successful call of a wrapper whose name carries the marker returns
\* self with one reference added for __enter__@, and None with no reference
\* added to self for __exit__@, whatever the number of return values and with
\* or without the hook; the result tuple and the hook's result, when they
\* exist, were released exactly once and are not what is returned.
C11_ContextManagerResult ==
  (Succeeded /\ fcCtxmgr # <<>>) =>
    /\ fcCtxmgr = Enter =>
         rt.outcome = "return self;" /\ rt.returned = "self" /\ rt.selfRef = 1
    /\ fcCtxmgr = Exit =>
         rt.outcome = "Py_RETURN_NONE;" /\ rt.returned = "None" /\ rt.selfRef = 0
    /\ rt.calls # <<>>
    /\ fcargs.nret > 0 => rt.made /\ Len(rt.items) = fcargs.nret
    /\ rt.made => rt.released = 1
    /\ (fcargs.postproc /\ fcargs.nret > 0) => rt.p = "hook" /\ rt.hookReleased = 1
    /\ ~(fcargs.postproc /\ fcargs.nret > 0) => rt.hookReleased = 0

C11_Witness ==
  /\ Succeeded
  /\ fcCtxmgr = Enter
  /\ fcargs.nret = 2
  /\ fcargs.postproc
  /\ rt.returned = "self"
  /\ rt.selfRef = 1
  /\ rt.released = 1
  /\ rt.hookReleased = 1

\* The line of the backward scan's loop header.
ScanLines == LinesOf("for (nargs = %d; nargs > %d; --nargs) {")

\* Control is past the backward scan.
ScanDone ==
  /\ phase \in {"running", "done"}
  /\ ScanLines # {}
  /\ rt.pc > CloseOf(MinOf(ScanLines))

\* The 1-based index of the last supplied optional argument, or minargs.
LastSupplied ==
  MaxOf({ j \in (fcMinargs + 1)..fcNargs : rt.a[j] } \cup {fcMinargs})

\* Local arg<j> was assigned from a supplied argument or from a literal default.
Assigned(j) ==
  \/ rt.a[j] /\ rt.arg[j] = "conv"
  \/ ~rt.a[j] /\ LiteralDefault(j) /\ rt.arg[j] = "default"

\* C12: with trailing defaults, after the backward scan nargs lies in
\* minargs..total and is the index of the last supplied optional argument
\* (minargs if none); when the native call of `case nargs` was made, each of
\* arg1..arg<nargs> was assigned by converting a supplied argument or from a
\* literal default, every argument local passed to the call was assigned,
\* and no absent (null) argument slot was ever converted.
C12_ScanAndAssign ==
  /\ ScanDone =>
       /\ fcMinargs <= rt.nargs /\ rt.nargs <= fcNargs
       /\ rt.nargs = LastSupplied
  /\ (Called /\ fcMinargs < fcNargs) =>
       /\ Len(rt.calls) = 1
       /\ \A j \in 1..rt.nargs : Assigned(j)
       /\ \A k \in 1..Len(rt.calls[1]) :
            rt.calls[1][k].var = "arg" => rt.arg[rt.calls[1][k].idx] # "unset"
  /\ phase \in {"running", "done"} => ~rt.nullConv

C12_Witness ==
  /\ Called
  /\ fcNargs = 3 /\ fcMinargs = 1
  /\ rt.a = <<TRUE, FALSE, TRUE>>
  /\ rt.nargs = 3
  /\ rt.arg[1] = "conv" /\ rt.arg[2] = "default" /\ rt.arg[3] = "conv"
  /\ Len(rt.calls[1]) = 3

====
